---- MODULE Spec2Model ----
(***************************************************************************)
(* PyDoctor: the troubleshooter of src/PyDoctor/troubleshoot.py.           *)
(*                                                                         *)
(* main() is a single blocking thread: construct TroubleshootManager,      *)
(* run_all_checks, repair_environment, summary, keypress prompt.  The      *)
(* model follows that thread with a program counter, one action per        *)
(* external call (directory creation, probe, spawned command, ...), and    *)
(* draws the outcome of each external call from the set the environment    *)
(* allows.                                                                 *)
(*                                                                         *)
(* Strings of the program (log lines, printed lines) are modelled by the   *)
(* fixed part of their text; values interpolated into them, the timestamp  *)
(* and level of a log record and the "[*] " of a status line are dropped.  *)
(***************************************************************************)
EXTENDS Naturals, Integers, Sequences, FiniteSets, TLC

VARIABLES
    pc,          \* position of the main thread
    run,         \* number of process runs started so far
    env,         \* what the environment does to external calls in this run
    fs,          \* persistent files: directories, log file, backup file
    logOpen,     \* a FileHandler is attached to the root logger
    out,         \* lines written with print() in this run
    calls,       \* functions and commands invoked in this run, in order
    results,     \* the report built by run_all_checks
    network,     \* the result dict of check_network_connectivity
    python,      \* the result dict of check_python_environment
    cmdOut,      \* outcome of each spawned repair command of this run
    probed,      \* outcome of each network probe of this run
    PATH,        \* os.environ['PATH'] of the process
    PYTHONPATH,  \* os.environ['PYTHONPATH'] of the process
    registry,    \* HKCU\Environment values written by this program
    dirExists,   \* the candidate Scripts directories that exist
    paths_to_add,\* the candidate list of setup_environment_variables
    study,       \* the path-extension step applied on its own: how often,
                 \* the PATH value before it and the value after the first
    ret,         \* return values seen by main
    returned,    \* what each run_command call of this run returned
    gui,         \* the window, widgets and timer of the GUI smoke test
    installer    \* the requirements installer, requirements.py

vars == <<pc, run, env, fs, logOpen, out, calls, results, network, python,
          cmdOut, probed, PATH, PYTHONPATH, registry, dirExists, paths_to_add,
          study, ret, returned, gui, installer>>

----------------------------------------------------------------------------
(* Bounds *)

MaxRuns == 2          \* process runs in one behaviour
MaxPathLen == 2       \* entries of the initial PATH value in the path study

----------------------------------------------------------------------------
(* Sequences *)

IsPrefix(s, t) == Len(s) <= Len(t) /\ SubSeq(t, 1, Len(s)) = s

Range(s) == {s[i] : i \in 1..Len(s)}

Count(s, S) == Cardinality({i \in 1..Len(s) : s[i] \in S})

Positions(s, S) == {i \in 1..Len(s) : s[i] \in S}

SeqsUpTo(S, n) == UNION {[1..k -> S] : k \in 0..n}

----------------------------------------------------------------------------
(* The environment.  Each field says what one family of external calls     *)
(* does in this run; "any" leaves every call of the family free.           *)

Free == "any"

Pick(field, all) == IF field = Free THEN all ELSE {field}

\* Path.home() / mkdir of the base directory, line 82-83
BaseDirOutcomes == Pick(env.basedir, {"ok", "fail"})

\* mkdir of the backup directory, line 23
BackupDirOutcomes == Pick(env.backupdir, {"ok", "fail"})

\* opening the log file, line 54
LogFileOutcomes == Pick(env.logfile, {"ok", "fail"})

\* SystemInfo(): all reads work, the memory read raises (lines 622-626),
\* a platform read raises (lines 628-630)
SysInfoOutcomes == Pick(env.sysinfo, {"ok", "nomem", "fail"})

ProbeOutcomes == Pick(env.net, {"ok", "fail"})

\* an HTTPS GET returns 200, returns another status, or raises
GetOutcomes ==
    IF env.net = Free THEN {"200", "other", "fail"}
    ELSE IF env.net = "ok" THEN {"200"} ELSE {"fail"}

HeaderOutcomes == Pick(env.hdr, {"ok", "raise"})

\* subprocess.run: exit status 0, non-zero exit status, TimeoutExpired,
\* any other exception
CmdAll == {"ok", "nonzero", "timeout", "exception"}

QueryOutcomes == Pick(env.query, CmdAll)

CmdOutcomes == Pick(env.cmd, CmdAll)

\* disk.percent values that the resource check can read
DiskValues == {50, 90, 91, 95}

LoadValues == {10, 99}

ReadFailures == {"cpu", "memory", "disk"}

\* the reads of check_system_resources: which one raises (or none), and
\* the values read
ResourceReads ==
    [fails : {"none"}, cpu : LoadValues, memory : LoadValues, disk : DiskValues]
    \cup [fails : ReadFailures, cpu : {10}, memory : {10}, disk : {50}]

ResourceOutcomes ==
    IF env.res = Free THEN ResourceReads
    ELSE IF env.res = "low"
         THEN {[fails |-> "none", cpu |-> 10, memory |-> 10, disk |-> 50]}
    ELSE IF env.res = "high"
         THEN {[fails |-> "none", cpu |-> 10, memory |-> 10, disk |-> 95]}
    ELSE {[fails |-> "disk", cpu |-> 10, memory |-> 10, disk |-> 50]}

SitePackagesOutcomes == Pick(env.site, {"exists", "missing", "raises"})

----------------------------------------------------------------------------
(* Logging and printing *)

\* logging.info/warning/error: one record per call reaches the log file
\* through the attached FileHandler; without a handler nothing is written
Logged(msgs) == IF logOpen THEN fs.log \o msgs ELSE fs.log

\* dict.get(key, default)
Get(d, k, default) == IF k \in DOMAIN d THEN d[k] ELSE default

Has(d, k) == k \in DOMAIN d

Put(d, k, v) == [x \in DOMAIN d \cup {k} |-> IF x = k THEN v ELSE d[x]]

EmptyDict == <<>>

----------------------------------------------------------------------------
(* Initial state: the process has just been started *)

\* the status label: its text and, for 'Processing click n...', the n
Label(text, n) == [text |-> text, n |-> n]

\* the GUI smoke test when it has not been started
NoWindow ==
    [running |-> FALSE, visible |-> FALSE, click_count |-> 0, progress |-> 0,
     timer |-> FALSE, debug |-> <<>>, status |-> Label("", 0), dialog |-> FALSE,
     reply |-> "", tray |-> "", event |-> "", clicks |-> 0, pressed |-> 0,
     asked |-> 0]

\* the requirements installer when it has not been started
NoInstaller ==
    [pc |-> "off", version |-> <<0, 0>>, pip |-> <<>>, outcomes |-> <<>>,
     failed_installations |-> <<>>, exit |-> "none", cancelled |-> FALSE,
     raised |-> FALSE, out |-> <<>>]

NoFiles == [base |-> FALSE, backup |-> FALSE, log |-> <<>>, backup_file |-> "absent"]

\* the state of a freshly started process, files and environment given
Started(e, files, path, dirs, cands) ==
    /\ pc = "start"
    /\ env = e
    /\ fs = files
    /\ logOpen = FALSE
    /\ out = <<>>
    /\ calls = <<>>
    /\ results = EmptyDict
    /\ network = EmptyDict
    /\ python = EmptyDict
    /\ cmdOut = <<>>
    /\ probed = <<>>
    /\ PATH = path
    /\ PYTHONPATH = e.pythonpath
    /\ registry = EmptyDict
    /\ dirExists = dirs
    /\ paths_to_add = cands
    /\ study = [applied |-> 0, before |-> <<>>, once |-> <<>>]
    /\ ret = EmptyDict
    /\ returned = <<>>
    /\ gui = NoWindow
    /\ installer = NoInstaller

----------------------------------------------------------------------------
(* main, lines 642-677, and TroubleshootManager.__init__, lines 17-42 *)

\* lines 645-646
main_banner ==
    /\ pc = "start"
    /\ out' = out \o <<"=== Python Environment Troubleshooter ===",
                       "Starting automated diagnostic process...">>
    /\ pc' = "create_base_directory"
    /\ UNCHANGED <<run, env, fs, logOpen, calls, results, network, python,
                   cmdOut, probed, PATH, PYTHONPATH, registry, dirExists, paths_to_add,
                   study, ret, returned, gui, installer>>

\* the alternative in which line 42 does not re-raise
init_swallows(printed) ==
    /\ out' = out \o printed \o <<"Error initializing TroubleshootManager">>
    /\ pc' = "diagnostics"

\* an exception inside __init__: lines 40-42 print and re-raise, main's
\* handler at lines 670-672 prints it, and control reaches the finally
\* block; printed holds what the failing helper printed itself
init_raises(printed) ==
    /\ out' = out \o printed \o <<"Error initializing TroubleshootManager",
                                    "Critical error">>
    /\ pc' = "finally"

\* lines 79-87
create_base_directory ==
    /\ pc = "create_base_directory"
    /\ \E o \in BaseDirOutcomes :
         IF o = "ok"
         THEN /\ fs' = [fs EXCEPT !.base = TRUE]
              /\ pc' = "backup_dir"
              /\ out' = out
         ELSE /\ init_raises(<<"Error creating base directory">>)
              /\ fs' = fs
    /\ UNCHANGED <<run, env, logOpen, calls, results, network, python,
                   cmdOut, probed, PATH, PYTHONPATH, registry, dirExists, paths_to_add,
                   study, ret, returned, gui, installer>>

\* lines 21-23
backup_dir_mkdir ==
    /\ pc = "backup_dir"
    /\ \E o \in BackupDirOutcomes :
         IF o = "ok"
         THEN /\ fs' = [fs EXCEPT !.backup = TRUE]
              /\ pc' = "setup_logging"
              /\ out' = out
         ELSE /\ init_raises(<<>>)
              /\ fs' = fs
    /\ UNCHANGED <<run, env, logOpen, calls, results, network, python,
                   cmdOut, probed, PATH, PYTHONPATH, registry, dirExists, paths_to_add,
                   study, ret, returned, gui, installer>>

\* logging.FileHandler(filename) opens the file with mode 'w': truncated
FileHandler_w(content) == <<>>

\* logging.FileHandler(filename), line 54: the default mode is 'a', the
\* file is created when absent and its content is kept
FileHandler(content) == content

\* lines 44-77: the handlers of the root logger are replaced by one file
\* handler and one console handler
setup_logging ==
    /\ pc = "setup_logging"
    /\ \E o \in LogFileOutcomes :
         IF o = "ok"
         THEN /\ fs' = [fs EXCEPT !.log = FileHandler(fs.log)]
              /\ logOpen' = TRUE
              /\ pc' = "SystemInfo"
              /\ out' = out
         ELSE /\ init_raises(<<"Error setting up logging">>)
              /\ UNCHANGED <<fs, logOpen>>
    /\ UNCHANGED <<run, env, calls, results, network, python,
                   cmdOut, probed, PATH, PYTHONPATH, registry, dirExists, paths_to_add,
                   study, ret, returned, gui, installer>>

InitialLogging ==
    <<"================", "Starting new troubleshooting session",
      "Starting initialization...", "Progress monitor initialized",
      "System info initialized", "Backup directory created",
      "TroubleshootManager initialized successfully">>

\* SystemInfo.__init__, lines 614-630, then lines 31-38
SystemInfo ==
    /\ pc = "SystemInfo"
    /\ \E o \in SysInfoOutcomes :
         CASE o = "ok" ->
                /\ fs' = [fs EXCEPT !.log = Logged(InitialLogging)]
                /\ pc' = "diagnostics"
                /\ out' = out
           [] o = "nomem" ->
                /\ fs' = [fs EXCEPT !.log =
                             Logged(<<"Could not get memory info">> \o InitialLogging)]
                /\ pc' = "diagnostics"
                /\ out' = out
           [] o = "fail" ->
                /\ fs' = [fs EXCEPT !.log = Logged(<<"Error initializing SystemInfo">>)]
                /\ init_raises(<<>>)
    /\ UNCHANGED <<run, env, logOpen, calls, results, network, python,
                   cmdOut, probed, PATH, PYTHONPATH, registry, dirExists, paths_to_add,
                   study, ret, returned, gui, installer>>

\* lines 651-653 and 136-143: the two status lines and the empty report
run_all_checks ==
    /\ pc = "diagnostics"
    /\ out' = out \o <<"Running diagnostics...",
                       "Starting diagnostic checks...">>
    /\ fs' = [fs EXCEPT !.log = Logged(<<"Running diagnostics...",
                                         "Starting diagnostic checks...">>)]
    /\ calls' = Append(calls, "run_all_checks")
    /\ results' = [timestamp |-> "now", system_checks |-> EmptyDict,
                   network_checks |-> EmptyDict, python_checks |-> EmptyDict,
                   issues_found |-> FALSE]
    /\ pc' = "header_resources"
    /\ UNCHANGED <<run, env, logOpen, network, python,
                   cmdOut, probed, PATH, PYTHONPATH, registry, dirExists, paths_to_add,
                   study, ret, returned, gui, installer>>

----------------------------------------------------------------------------
(* run_all_checks, lines 133-168 *)

\* print_header, lines 98-102, called at lines 146, 151 and 156.  It has no
\* handler of its own: when it raises, the handler of run_all_checks at
\* lines 165-168 logs the error and returns the error marker to main
print_header(at, text, next) ==
    /\ pc = at
    /\ \E o \in HeaderOutcomes :
         IF o = "ok"
         THEN /\ out' = out \o <<text>>
              /\ fs' = [fs EXCEPT !.log = Logged(<<text>>)]
              /\ pc' = next
              /\ results' = results
         ELSE /\ out' = out
              /\ fs' = [fs EXCEPT !.log = Logged(<<"Error running diagnostic checks">>)]
              /\ results' = [error |-> "Error running diagnostic checks"]
              /\ pc' = "report"
    /\ UNCHANGED <<run, env, logOpen, calls, network, python,
                   cmdOut, probed, PATH, PYTHONPATH, registry, dirExists, paths_to_add,
                   study, ret, returned, gui, installer>>

header_resources ==
    print_header("header_resources", "System Resources Check", "check_system_resources")

header_network ==
    print_header("header_network", "Network Connectivity Check", "check_network_connectivity")

header_python ==
    print_header("header_python", "Python Environment Check", "check_python_environment")

ResourceError == [error |-> "Error checking system resources"]

\* lines 172-202 as a function of what the three reads do: the dict
\* returned and the lines logged.  The reads happen in the order CPU,
\* memory, disk; the first one that raises ends the function at line 199
\* with the error marker alone
resources_of(r) ==
    CASE r.fails = "cpu" ->
           [section |-> ResourceError,
            logs |-> <<"Error checking system resources">>]
      [] r.fails = "memory" ->
           [section |-> ResourceError,
            logs |-> <<"CPU Usage", "Error checking system resources">>]
      [] r.fails = "disk" ->
           [section |-> ResourceError,
            logs |-> <<"CPU Usage", "Memory Usage", "Available Memory",
                       "Error checking system resources">>]
      [] r.fails = "none" ->
           [section |-> [cpu_usage |-> r.cpu, memory_usage |-> r.memory,
                         available_memory |-> "GB", disk_usage |-> r.disk,
                         free_disk_space |-> "GB"],
            logs |-> <<"CPU Usage", "Memory Usage", "Available Memory",
                       "Disk Usage", "Free Disk Space">>]

\* the alternative in which a failing read escapes check_system_resources
check_system_resources_raising ==
    /\ pc = "check_system_resources"
    /\ \E r \in ResourceOutcomes :
         IF r.fails = "none"
         THEN /\ fs' = [fs EXCEPT !.log = Logged(resources_of(r).logs)]
              /\ results' = [results EXCEPT !.system_checks =
                                Put(@, "resources", resources_of(r).section)]
              /\ pc' = "header_network"
         ELSE /\ fs' = [fs EXCEPT !.log = Logged(<<"Error running diagnostic checks">>)]
              /\ results' = [error |-> "Error running diagnostic checks"]
              /\ pc' = "report"
    /\ calls' = Append(calls, "check_system_resources")
    /\ UNCHANGED <<run, env, logOpen, out, network, python,
                   cmdOut, probed, PATH, PYTHONPATH, registry, dirExists, paths_to_add,
                   study, ret, returned, gui, installer>>

\* lines 147-148 and 170-202
check_system_resources ==
    /\ pc = "check_system_resources"
    /\ \E r \in ResourceOutcomes :
         /\ fs' = [fs EXCEPT !.log = Logged(resources_of(r).logs)]
         /\ results' = [results EXCEPT !.system_checks =
                           Put(@, "resources", resources_of(r).section)]
    /\ calls' = Append(calls, "check_system_resources")
    /\ pc' = "header_network"
    /\ UNCHANGED <<run, env, logOpen, out, network, python,
                   cmdOut, probed, PATH, PYTHONPATH, registry, dirExists, paths_to_add,
                   study, ret, returned, gui, installer>>

----------------------------------------------------------------------------
(* check_network_connectivity, lines 204-291 *)

\* lines 206-213
check_network_connectivity ==
    /\ pc = "check_network_connectivity"
    /\ network' = [internet_connection |-> FALSE, pypi_access |-> FALSE,
                   github_access |-> FALSE, dns_resolution |-> FALSE,
                   latency |-> {}, errors |-> <<>>]
    /\ calls' = Append(calls, "check_network_connectivity")
    /\ pc' = "probe_internet"
    /\ UNCHANGED <<run, env, fs, logOpen, out, results, python,
                   cmdOut, probed, PATH, PYTHONPATH, registry, dirExists, paths_to_add,
                   study, ret, returned, gui, installer>>

netFrame == <<run, env, logOpen, out, results, python,
              cmdOut, PATH, PYTHONPATH, registry, dirExists, paths_to_add,
              study, ret, returned, gui, installer>>

\* the handler of one probe: the error string is appended and logged
probe_failed(msg) ==
    /\ network' = [network EXCEPT !.errors = Append(@, msg)]
    /\ fs' = [fs EXCEPT !.log = Logged(<<msg>>)]

\* the alternative in which a failing probe ends the network check: the
\* error is recorded and the result is returned at once
probe_failed_exit(msg, next) ==
    /\ probe_failed(msg)
    /\ pc' = "log_network_results"

\* what follows a failed probe: the next probe
probe_failed_next(msg, next) ==
    /\ probe_failed(msg)
    /\ pc' = next

\* lines 217-223: socket.create_connection(("8.8.8.8", 53), timeout=3)
probe_internet ==
    /\ pc = "probe_internet"
    /\ calls' = Append(calls, "probe_internet")
    /\ \E o \in ProbeOutcomes :
         /\ probed' = Append(probed, [probe |-> "probe_internet", outcome |-> o])
         /\ IF o = "ok"
            THEN /\ network' = [network EXCEPT !.internet_connection = TRUE]
                 /\ fs' = [fs EXCEPT !.log = Logged(<<"Internet Connection: Available">>)]
                 /\ pc' = "probe_dns"
            ELSE probe_failed_next("Internet connection error", "probe_dns")
    /\ UNCHANGED netFrame

\* lines 226-231: socket.gethostbyname("python.org")
probe_dns ==
    /\ pc = "probe_dns"
    /\ calls' = Append(calls, "probe_dns")
    /\ \E o \in ProbeOutcomes :
         /\ probed' = Append(probed, [probe |-> "probe_dns", outcome |-> o])
         /\ IF o = "ok"
            THEN /\ network' = [network EXCEPT !.dns_resolution = TRUE]
                 /\ fs' = fs
                 /\ pc' = "probe_pypi"
            ELSE probe_failed_next("DNS resolution error", "probe_pypi")
    /\ UNCHANGED netFrame

\* lines 234-241 and 244-251: requests.get(url, timeout=5); the flag is
\* status_code == 200, the latency is recorded and "Available" is logged
\* for every response
probe_get(at, name, flag, available, error, next) ==
    /\ pc = at
    /\ calls' = Append(calls, at)
    /\ \E o \in GetOutcomes :
         /\ probed' = Append(probed, [probe |-> at, outcome |-> o])
         /\ IF o = "fail"
            THEN probe_failed_next(error, next)
            ELSE /\ network' = [network EXCEPT ![flag] = (o = "200"),
                                               !.latency = @ \cup {name}]
                 /\ fs' = [fs EXCEPT !.log = Logged(<<available>>)]
                 /\ pc' = next
    /\ UNCHANGED netFrame

probe_pypi ==
    probe_get("probe_pypi", "pypi", "pypi_access", "PyPI Access: Available",
              "PyPI access error", "probe_github")

probe_github ==
    probe_get("probe_github", "github", "github_access", "GitHub Access: Available",
              "GitHub access error", "probe_ssl")

\* lines 254-262: the TLS handshake with python.org:443; ssl_working is
\* added to the dict only when the handshake succeeds
probe_ssl ==
    /\ pc = "probe_ssl"
    /\ calls' = Append(calls, "probe_ssl")
    /\ \E o \in ProbeOutcomes :
         /\ probed' = Append(probed, [probe |-> "probe_ssl", outcome |-> o])
         /\ IF o = "ok"
            THEN /\ network' = Put(network, "ssl_working", TRUE)
                 /\ fs' = fs
                 /\ pc' = "probe_speed"
            ELSE probe_failed_next("SSL error", "probe_speed")
    /\ UNCHANGED netFrame

\* lines 265-280: the proxy variables are read, then the timed GET of
\* www.google.com, whose status is not looked at
probe_speed ==
    /\ pc = "probe_speed"
    /\ calls' = Append(calls, "probe_speed")
    /\ \E o \in GetOutcomes :
         /\ probed' = Append(probed, [probe |-> "probe_speed", outcome |-> o])
         /\ LET withProxy == Put(network, "proxy_settings", "environ") IN
            IF o = "fail"
            THEN /\ network' = [withProxy EXCEPT !.errors = Append(@, "Speed test error")]
                 /\ fs' = [fs EXCEPT !.log = Logged(<<"Speed test error">>)]
            ELSE /\ network' = [withProxy EXCEPT !.latency = @ \cup {"google"}]
                 /\ fs' = fs
    /\ pc' = "log_network_results"
    /\ UNCHANGED netFrame

\* lines 293-327
network_log_lines(n) ==
    <<IF n.internet_connection THEN "Basic Internet Connection: ok"
                                ELSE "Basic Internet Connection: failed",
      IF n.dns_resolution THEN "DNS Resolution: ok" ELSE "DNS Resolution: failed",
      IF n.pypi_access THEN "PyPI Access: ok" ELSE "PyPI Access: failed",
      IF n.github_access THEN "GitHub Access: ok" ELSE "GitHub Access: failed",
      IF Get(n, "ssl_working", FALSE) THEN "SSL/TLS: ok" ELSE "SSL/TLS: failed">>
    \o (IF n.errors # <<>>
        THEN <<"Network test errors encountered:">> \o n.errors
        ELSE <<>>)

\* lines 283-285 and 153
log_network_results ==
    /\ pc = "log_network_results"
    /\ fs' = [fs EXCEPT !.log = Logged(network_log_lines(network))]
    /\ results' = [results EXCEPT !.network_checks = network]
    /\ pc' = "header_python"
    /\ UNCHANGED <<run, env, logOpen, out, calls, network, python,
                   cmdOut, probed, PATH, PYTHONPATH, registry, dirExists, paths_to_add,
                   study, ret, returned, gui, installer>>

----------------------------------------------------------------------------
(* run_command, lines 104-131 *)

\* run_command as if a command that exits with a non-zero status were
\* reported like one that could not be run
run_command_checked(o) ==
    CASE o = "ok" -> [completed |-> TRUE, returncode |-> 0]
      [] OTHER    -> [completed |-> FALSE, returncode |-> 1]

\* the value returned: the CompletedProcess, or None after a timeout or
\* another exception
run_command(o) ==
    CASE o = "ok"      -> [completed |-> TRUE, returncode |-> 0]
      [] o = "nonzero" -> [completed |-> TRUE, returncode |-> 1]
      [] OTHER         -> [completed |-> FALSE, returncode |-> 1]

\* the history of run_command after one more call: the command, what the
\* spawn did and the value handed back to the caller
called(cmd, o) ==
    Append(returned, [command |-> cmd, spawn |-> o, result |-> run_command(o)])

\* the lines logged: stdout and stderr unless silent, the error otherwise;
\* a command that succeeds writes to stdout (unless redirected), one that
\* fails writes to stderr
run_command_logs(o, silent, redirected) ==
    CASE o = "ok"        -> IF silent \/ redirected THEN <<>> ELSE <<"Command output">>
      [] o = "nonzero"   -> IF silent THEN <<>> ELSE <<"Command errors">>
      [] o = "timeout"   -> <<"Command timed out after 60 seconds">>
      [] o = "exception" -> <<"Error running command">>

----------------------------------------------------------------------------
(* check_python_environment, lines 357-369, with its helpers *)

pyFrame == <<run, env, logOpen, out, network,
             cmdOut, probed, PATH, PYTHONPATH, registry, dirExists, paths_to_add,
             study, ret, gui, installer>>

\* lines 392-401, called at line 362: pip --version, silent
get_pip_version ==
    /\ pc = "check_python_environment"
    /\ calls' = Append(calls, "check_python_environment")
    /\ \E o \in QueryOutcomes :
         /\ fs' = [fs EXCEPT !.log = Logged(run_command_logs(o, TRUE, FALSE))]
         /\ returned' = called("pip --version", o)
         /\ python' = [python_version |-> "sys.version",
                       pip_version |-> IF run_command(o).completed
                                          /\ run_command(o).returncode = 0
                                       THEN "pip x.y" ELSE "Unknown"]
    /\ pc' = "check_site_packages"
    /\ results' = results
    /\ UNCHANGED pyFrame

\* lines 414-427, called at line 363.  get_directory_size is not defined
\* anywhere in the class: for an existing directory line 423 raises
\* AttributeError, which line 425 turns into the error marker
check_site_packages ==
    /\ pc = "check_site_packages"
    /\ \E o \in SitePackagesOutcomes :
         IF o = "missing"
         THEN /\ python' = Put(python, "site_packages",
                               [path |-> "site-packages", exists |-> FALSE,
                                writable |-> FALSE, size |-> 0])
              /\ fs' = fs
         ELSE /\ python' = Put(python, "site_packages", [error |-> "exception"])
              /\ fs' = [fs EXCEPT !.log = Logged(<<"Error checking site-packages">>)]
    /\ pc' = "get_installed_packages"
    /\ UNCHANGED <<calls, results, returned>>
    /\ UNCHANGED pyFrame

\* the output of pip list: two header rows, then one row per package
PipListOutput == <<"Package Version", "-------", "pip 24.0", "PyQt6 6.6.1">>

\* line 408: result.stdout.strip().split('\n')[2:]
skip_header_rows(lines) == SubSeq(lines, 3, Len(lines))

\* lines 403-412, called at line 364, then lines 366 and 158
get_installed_packages ==
    /\ pc = "get_installed_packages"
    /\ \E o \in QueryOutcomes :
         LET packages == IF run_command(o).completed /\ run_command(o).returncode = 0
                         THEN skip_header_rows(PipListOutput) ELSE <<>>
             status == Put(python, "installed_packages", packages)
         IN /\ fs' = [fs EXCEPT !.log = Logged(run_command_logs(o, TRUE, FALSE))]
            /\ python' = status
            /\ returned' = called("pip list", o)
            /\ results' = [results EXCEPT !.python_checks = status]
    /\ pc' = "analyze_results"
    /\ calls' = calls
    /\ UNCHANGED pyFrame

----------------------------------------------------------------------------
(* analyze_results, lines 371-390 *)

DiskThreshold == 90

\* the alternative in which every failed reachability flag counts
analyze_results_any_flag(r) ==
    LET disk == Get(Get(r.system_checks, "resources", EmptyDict), "disk_usage", 0)
                   > DiskThreshold
        net  == \/ ~ Get(r.network_checks, "internet_connection", FALSE)
                \/ ~ Get(r.network_checks, "dns_resolution", FALSE)
    IN [issues_found |-> disk \/ net,
        logs |-> (IF disk THEN <<"High disk usage detected">> ELSE <<>>)
                 \o (IF net THEN <<"No internet connection detected">> ELSE <<>>)]

\* the flag returned and the warnings logged
analyze_results(r) ==
    LET disk == Get(Get(r.system_checks, "resources", EmptyDict), "disk_usage", 0)
                   > DiskThreshold
        net  == ~ Get(r.network_checks, "internet_connection", FALSE)
    IN [issues_found |-> disk \/ net,
        logs |-> (IF disk THEN <<"High disk usage detected">> ELSE <<>>)
                 \o (IF net THEN <<"No internet connection detected">> ELSE <<>>)]

\* lines 161-163
determine_issues ==
    /\ pc = "analyze_results"
    /\ calls' = Append(calls, "analyze_results")
    /\ results' = [results EXCEPT !.issues_found = analyze_results(results).issues_found]
    /\ fs' = [fs EXCEPT !.log = Logged(analyze_results(results).logs)]
    /\ pc' = "report"
    /\ UNCHANGED <<run, env, logOpen, out, network, python,
                   cmdOut, probed, PATH, PYTHONPATH, registry, dirExists, paths_to_add,
                   study, ret, returned, gui, installer>>

----------------------------------------------------------------------------
(* main after the diagnosis, lines 655-661 *)

\* the alternative in which the repair is attempted only when the report
\* says that issues were found
after_report_gated(r) == IF Get(r, "issues_found", FALSE) THEN "repair" ELSE "summary"

\* what main does with the report: nothing, the repair comes next
after_report(r) == "repair"

\* lines 655-657
main_report ==
    /\ pc = "report"
    /\ out' = out \o <<"Creating system report...">>
    /\ fs' = [fs EXCEPT !.log = Logged(<<"Creating system report...">>)]
    /\ pc' = after_report(results)
    /\ UNCHANGED <<run, env, logOpen, calls, results, network, python,
                   cmdOut, probed, PATH, PYTHONPATH, registry, dirExists, paths_to_add,
                   study, ret, returned, gui, installer>>

----------------------------------------------------------------------------
(* repair_environment, lines 555-586, and fix_pip, lines 429-456 *)

\* the alternative in which pip is upgraded before the backup is taken
repair_steps_backup_late ==
    <<"fix_pip_upgrade", "fix_pip_backup", "fix_pip_setuptools", "fix_pip_cache",
      "pyqt_uninstall", "pyqt_install",
      "setup_environment_variables", "verify_installation">>

\* the steps in the order of the source: lines 438, 442, 446, 450 of
\* fix_pip, then lines 569, 571, 576, 579 of repair_environment
repair_steps ==
    <<"fix_pip_backup", "fix_pip_upgrade", "fix_pip_setuptools", "fix_pip_cache",
      "pyqt_uninstall", "pyqt_install",
      "setup_environment_variables", "verify_installation">>

StepIndex(at) == CHOOSE i \in 1..Len(repair_steps) : repair_steps[i] = at

\* the alternative in which a command that did not succeed ends the repair
step_after_abort(at, o) ==
    IF o # "ok" THEN "summary"
    ELSE IF StepIndex(at) = Len(repair_steps) THEN "summary"
    ELSE repair_steps[StepIndex(at) + 1]

\* the step that follows step at, whatever the outcome o of at was:
\* run_command returns None instead of raising and no caller looks at the
\* value returned
step_after(at, o) ==
    IF StepIndex(at) = Len(repair_steps) THEN "summary"
    ELSE repair_steps[StepIndex(at) + 1]

\* lines 659-661, 558 and 432
repair_environment ==
    /\ pc = "repair"
    /\ out' = out \o <<"Attempting environment repair...",
                       "Starting environment repair...",
                       "Fixing pip installation...">>
    /\ fs' = [fs EXCEPT !.log = Logged(<<"Attempting environment repair...",
                                         "Starting environment repair...",
                                         "Fixing pip installation...">>)]
    /\ calls' = Append(calls, "repair_environment")
    /\ pc' = repair_steps[1]
    /\ UNCHANGED <<run, env, logOpen, results, network, python,
                   cmdOut, probed, PATH, PYTHONPATH, registry, dirExists, paths_to_add,
                   study, ret, returned, gui, installer>>

cmdFrame == <<run, env, logOpen, results, network, python, probed,
              PATH, PYTHONPATH, registry, dirExists, paths_to_add,
              study, ret, gui, installer>>

\* the alternative in which the dump is not redirected into the file
backup_file_lost(o, before) == {before}

\* the backup file after pip freeze > "backup_file" (line 438, shell=True):
\* the shell creates the file when it sets up the redirection and pip
\* fills it.  Exit status 0: the dump is written.  Non-zero: the
\* redirection failed (no file) or pip failed (file without the dump).
\* Timeout: the file without the complete dump.  No spawn: nothing
backup_file_after(o, before) ==
    CASE o = "ok"        -> {"written"}
      [] o = "nonzero"   -> {before, "empty"}
      [] o = "timeout"   -> {"empty"}
      [] o = "exception" -> {before}

\* lines 434-438
fix_pip_backup ==
    /\ pc = "fix_pip_backup"
    /\ out' = out \o <<"Creating pip packages backup...">>
    /\ \E o \in CmdOutcomes :
         /\ \E f \in backup_file_after(o, fs.backup_file) :
              fs' = [fs EXCEPT !.log = Logged(<<"Creating pip packages backup...">>
                                              \o run_command_logs(o, FALSE, TRUE)),
                               !.backup_file = f]
         /\ cmdOut' = Append(cmdOut, [cmd |-> "pip freeze", outcome |-> o])
         /\ returned' = called("pip freeze", o)
         /\ calls' = Append(calls, "fix_pip_backup")
         /\ pc' = step_after("fix_pip_backup", o)
    /\ UNCHANGED cmdFrame

\* one spawned command of the repair with the status line before it
spawn(at, status, cmd) ==
    /\ pc = at
    /\ out' = out \o (IF status = "" THEN <<>> ELSE <<status>>)
    /\ \E o \in CmdOutcomes :
         /\ fs' = [fs EXCEPT !.log = Logged((IF status = "" THEN <<>> ELSE <<status>>)
                                            \o run_command_logs(o, FALSE, FALSE))]
         /\ cmdOut' = Append(cmdOut, [cmd |-> cmd, outcome |-> o])
         /\ returned' = called(cmd, o)
         /\ calls' = Append(calls, at)
         /\ pc' = step_after(at, o)
    /\ UNCHANGED cmdFrame

\* lines 441-442
fix_pip_upgrade ==
    spawn("fix_pip_upgrade", "Updating pip to latest version...",
          "python -m pip install --upgrade pip")

\* lines 445-446
fix_pip_setuptools ==
    spawn("fix_pip_setuptools", "Installing/Upgrading setuptools and wheel...",
          "pip install --upgrade setuptools wheel")

\* lines 449-450
fix_pip_cache ==
    spawn("fix_pip_cache", "Cleaning pip cache...", "pip cache purge")

\* lines 566-569
pyqt_uninstall ==
    spawn("pyqt_uninstall", "Repairing PyQt6 installation...",
          "pip uninstall PyQt6 PyQt6-Qt6 PyQt6-sip -y")

\* line 571
pyqt_install ==
    spawn("pyqt_install", "", "pip install PyQt6")

----------------------------------------------------------------------------
(* setup_environment_variables, lines 458-532 *)

\* The value of PATH is held as the list of its entries, that is as
\* value.split(os.pathsep): every string is the join of exactly one
\* non-empty list of separator-free entries, the empty string of <<"">>.
\* The empty list stands for the variable not being set.

\* line 473: os.environ.get('PATH', '').split(os.pathsep)
getenv_split(value) == IF value = <<>> THEN <<"">> ELSE value

\* the candidates of lines 465-470 as str(path)
Candidates == {"exe/Scripts", "Local/Programs/Python/Scripts",
               "Roaming/Python/Scripts", "Roaming/Python/Python/Scripts"}

\* paths_to_add: the first candidate is derived from sys.executable, the
\* others from the home directory; an interpreter installed in
\* ~/AppData/Local/Programs/PythonXY makes the first two the same path
CandidateLists ==
    {<<"exe/Scripts", "Local/Programs/Python/Scripts",
       "Roaming/Python/Scripts", "Roaming/Python/Python/Scripts">>,
     <<"Local/Programs/Python/Scripts", "Local/Programs/Python/Scripts",
       "Roaming/Python/Scripts", "Roaming/Python/Python/Scripts">>}

RECURSIVE add_missing_stale(_, _, _, _)
\* the alternative in which a candidate is looked up in the PATH value as
\* it was read, not in the list that is being extended
add_missing_stale(cands, current_path, paths_added, exists) ==
    IF cands = <<>>
    THEN [current_path |-> current_path, paths_added |-> paths_added]
    ELSE LET path == Head(cands)
             read == SubSeq(current_path, 1, Len(current_path) - Len(paths_added))
         IN IF path \in exists /\ path \notin Range(read)
            THEN add_missing_stale(Tail(cands), Append(current_path, path),
                                   Append(paths_added, path), exists)
            ELSE add_missing_stale(Tail(cands), current_path, paths_added, exists)

RECURSIVE add_missing(_, _, _, _)
\* the loop of lines 477-481
add_missing(cands, current_path, paths_added, exists) ==
    IF cands = <<>>
    THEN [current_path |-> current_path, paths_added |-> paths_added]
    ELSE LET path == Head(cands)
         IN IF path \in exists /\ path \notin Range(current_path)
            THEN add_missing(Tail(cands), Append(current_path, path),
                             Append(paths_added, path), exists)
            ELSE add_missing(Tail(cands), current_path, paths_added, exists)

\* lines 473-486: the new value of PATH; it is assigned only when a path
\* was added
extend_path(value, cands, exists) ==
    LET r == add_missing(cands, getenv_split(value), <<>>, exists)
    IN [PATH |-> IF r.paths_added # <<>> THEN r.current_path ELSE value,
        paths_added |-> r.paths_added]

RegistryOutcomes == Pick(env.reg, {"ok", "fail"})

\* find_executable, lines 534-553.  On Windows the entries of PATH are
\* searched for the file; the companion executables are in the Scripts
\* directory of the interpreter when they are installed; without a PATH
\* variable line 538 raises KeyError.  Elsewhere line 548 uses shutil,
\* which is not imported: NameError.  Both are logged at line 552
find_executable(path) ==
    [found |-> /\ env.plat = "Windows"
               /\ env.exe = "present"
               /\ "exe/Scripts" \in Range(path),
     logs |-> IF env.plat = "Windows" /\ path # <<>>
              THEN <<>> ELSE <<"Error finding executable">>]

\* the loop of lines 520-525 over the two scripts
find_scripts_logs(path, found, missing) ==
    LET f == find_executable(path)
        one == f.logs \o (IF f.found THEN <<found>> ELSE <<missing>>)
    IN one \o one

\* lines 458-532.  site is not imported by the module (lines 1-14) and
\* only locally by check_site_packages: with PYTHONPATH unset or empty,
\* line 501 raises NameError and line 529 returns False
setup_environment_variables ==
    /\ pc = "setup_environment_variables"
    /\ out' = out \o <<"Setting up environment variables...">>
    /\ LET e == extend_path(PATH, paths_to_add, dirExists)
           added == [i \in 1..Len(e.paths_added) |-> "Added to PATH"]
           persist == e.paths_added # <<>> /\ env.plat = "Windows"
           rest == IF PYTHONPATH \in {"unset", "empty"}
                   THEN <<"Error setting up environment variables">>
                   ELSE find_scripts_logs(e.PATH, "Found script in PATH",
                                          "Could not find script in PATH")
       IN /\ PATH' = e.PATH
          /\ \E o \in RegistryOutcomes :
               /\ registry' = IF persist /\ o = "ok"
                              THEN Put(registry, "PATH", e.PATH) ELSE registry
               /\ fs' = [fs EXCEPT !.log = Logged(
                            <<"Setting up environment variables...">> \o added
                            \o (IF ~ persist THEN <<>>
                                ELSE IF o = "ok"
                                THEN <<"Updated system PATH permanently">>
                                ELSE <<"Could not update system PATH permanently">>)
                            \o rest)]
          /\ ret' = Put(ret, "setup_environment_variables",
                        PYTHONPATH \notin {"unset", "empty"})
    /\ pc' = step_after("setup_environment_variables",
                        IF PYTHONPATH \in {"unset", "empty"} THEN "exception" ELSE "ok")
    /\ calls' = Append(calls, "setup_environment_variables")
    /\ UNCHANGED <<run, env, logOpen, results, network, python,
                   cmdOut, probed, PYTHONPATH, dirExists, paths_to_add, study,
                   returned, gui, installer>>

\* import PyQt6 and reading its version, lines 594-598: it works, raises
\* ImportError, or raises something else, caught at line 611
ImportOutcomes == Pick(env.imp, {"ok", "ImportError", "raises"})

\* lines 588-612, then line 581
\* repair_environment as if it returned what the environment step returned
repair_environment_gated(fixed, setup) == fixed /\ setup

\* lines 561-581: the value repair_environment returns once its steps are
\* done.  Only a False from fix_pip ends it early with False; the results of
\* the two PyQt6 commands, of setup_environment_variables and of
\* verify_installation are discarded and line 581 returns True.
repair_environment_return(fixed, setup) == fixed

\* lines 431-451: fix_pip ignores what its four commands return and
\* run_command raises nothing, so line 451 is always reached
fix_pip_return == TRUE

verify_installation ==
    /\ pc = "verify_installation"
    /\ out' = out \o <<"Verifying installation...">>
    /\ \E o \in ImportOutcomes :
         fs' = [fs EXCEPT !.log = Logged(
                   <<"Verifying installation...">>
                   \o (IF o = "raises"
                       THEN <<"Error verifying installation">>
                       ELSE (IF o = "ok" THEN <<"PyQt6 version">>
                                         ELSE <<"PyQt6 import failed">>)
                            \o find_scripts_logs(PATH, "Found script at",
                                                 "Could not find script")
                            \o <<"PYTHONPATH">>))]
    /\ ret' = Put(ret, "repair_success",
                   repair_environment_return(fix_pip_return,
                       Get(ret, "setup_environment_variables", FALSE)))
    /\ pc' = step_after("verify_installation", "ok")
    /\ calls' = Append(calls, "verify_installation")
    /\ UNCHANGED <<run, env, logOpen, results, network, python,
                   cmdOut, probed, PATH, PYTHONPATH, registry, dirExists, paths_to_add, study,
                   returned, gui, installer>>

----------------------------------------------------------------------------
(* the end of main, lines 663-677 *)

\* lines 663-668
summary ==
    /\ pc = "summary"
    /\ out' = out \o <<"=== Troubleshooting Summary ===", "Log file location",
                       "Report directory",
                       IF Get(ret, "repair_success", FALSE)
                       THEN "Repair status: Successful" ELSE "Repair status: Failed",
                       "Process complete.">>
    /\ pc' = "finally"
    /\ UNCHANGED <<run, env, fs, logOpen, calls, results, network, python,
                   cmdOut, probed, PATH, PYTHONPATH, registry, dirExists, paths_to_add,
                   study, ret, returned, gui, installer>>

\* lines 674-676
prompt ==
    /\ pc = "finally"
    /\ out' = out \o <<"Press Enter to exit...">>
    /\ pc' = "input"
    /\ UNCHANGED <<run, env, fs, logOpen, calls, results, network, python,
                   cmdOut, probed, PATH, PYTHONPATH, registry, dirExists, paths_to_add,
                   study, ret, returned, gui, installer>>

\* line 677: the key is pressed and the process ends
keypress ==
    /\ pc = "input"
    /\ pc' = "exited"
    /\ UNCHANGED <<run, env, fs, logOpen, out, calls, results, network, python,
                   cmdOut, probed, PATH, PYTHONPATH, registry, dirExists, paths_to_add,
                   study, ret, returned, gui, installer>>

----------------------------------------------------------------------------
(* The path-extension step of lines 463-486 on its own *)

extend_path_step ==
    /\ pc = "path_study"
    /\ study.applied < 2
    /\ PATH' = extend_path(PATH, paths_to_add, dirExists).PATH
    /\ study' = [applied |-> study.applied + 1,
                 before |-> IF study.applied = 0 THEN PATH ELSE study.before,
                 once   |-> IF study.applied = 0 THEN PATH' ELSE study.once]
    /\ UNCHANGED <<pc, run, env, fs, logOpen, out, calls, results, network, python,
                   cmdOut, probed, PYTHONPATH, registry, dirExists, paths_to_add, ret,
                   returned, gui, installer>>

----------------------------------------------------------------------------
(* Environments, initial states and specifications *)

\* the PATH value every process of the end-to-end runs starts with
StartPath == <<"C:/Windows">>

\* a new process: the troubleshooter is started again on the same machine.
\* The files stay; the backup file of the new run has a new timestamped
\* name and does not exist yet
restart(scenarios) ==
    /\ pc = "exited"
    /\ run < MaxRuns
    /\ run' = run + 1
    /\ \E e \in scenarios :
         /\ env' = e
         /\ PYTHONPATH' = e.pythonpath
    /\ pc' = "start"
    /\ fs' = [fs EXCEPT !.backup_file = "absent"]
    /\ logOpen' = FALSE
    /\ out' = <<>>
    /\ calls' = <<>>
    /\ results' = EmptyDict
    /\ network' = EmptyDict
    /\ python' = EmptyDict
    /\ cmdOut' = <<>>
    /\ probed' = <<>>
    /\ PATH' = StartPath
    /\ ret' = EmptyDict
    /\ returned' = <<>>
    /\ UNCHANGED <<registry, dirExists, paths_to_add, study, gui,
                   installer>>

\* a Windows machine on which every external call works
Healthy ==
    [basedir |-> "ok", backupdir |-> "ok", logfile |-> "ok", sysinfo |-> "ok",
     net |-> "ok", res |-> "low", hdr |-> "ok", query |-> "ok", cmd |-> "ok",
     imp |-> "ok", site |-> "exists", plat |-> "Windows", reg |-> "ok",
     exe |-> "present", pythonpath |-> "unset"]

\* the machine states of the end-to-end runs: the healthy machine and the
\* machine with one thing wrong
Scenarios ==
    {Healthy,
     [Healthy EXCEPT !.pythonpath = "set"],
     [Healthy EXCEPT !.net = "fail", !.cmd = "nonzero", !.pythonpath = "set"],
     [Healthy EXCEPT !.res = "high"],
     [Healthy EXCEPT !.res = "high", !.net = "fail", !.cmd = "nonzero"],
     [Healthy EXCEPT !.res = "unreadable"],
     [Healthy EXCEPT !.query = "timeout", !.cmd = "timeout", !.imp = "ImportError"],
     [Healthy EXCEPT !.query = "exception", !.cmd = "exception", !.imp = "raises",
                     !.reg = "fail", !.pythonpath = "set"],
     [Healthy EXCEPT !.hdr = "raise"],
     [Healthy EXCEPT !.basedir = "fail"],
     [Healthy EXCEPT !.backupdir = "fail"],
     [Healthy EXCEPT !.logfile = "fail"],
     [Healthy EXCEPT !.sysinfo = "nomem"],
     [Healthy EXCEPT !.sysinfo = "fail"]}

\* every failure of the construction and of the three checks, no other
CheckFailures ==
    [Healthy EXCEPT !.basedir = Free, !.backupdir = Free, !.logfile = Free,
                    !.sysinfo = Free, !.net = Free, !.res = Free,
                    !.query = Free, !.site = Free]

\* a healthy diagnosis, every outcome of the repair steps
RepairFailures ==
    {[Healthy EXCEPT !.cmd = Free, !.imp = Free, !.reg = Free,
                     !.plat = p, !.pythonpath = pp] :
        p \in {"Windows", "Linux"}, pp \in {"unset", "empty", "set"}}

DefaultCandidates ==
    <<"exe/Scripts", "Local/Programs/Python/Scripts",
      "Roaming/Python/Scripts", "Roaming/Python/Python/Scripts">>

Init ==
    /\ run = 1
    /\ \E e \in Scenarios :
         Started(e, NoFiles, StartPath, {"exe/Scripts"}, DefaultCandidates)

InitChecks ==
    /\ run = 1
    /\ Started(CheckFailures, NoFiles, StartPath, {"exe/Scripts"}, DefaultCandidates)

InitRepair ==
    /\ run = 1
    /\ \E e \in RepairFailures, dirs \in {{}, {"exe/Scripts"}} :
         Started(e, NoFiles, StartPath, dirs, DefaultCandidates)

\* the entries a PATH value of the path study is made of: the empty entry,
\* a system directory, the candidates, and a candidate spelled with a
\* trailing separator
PathEntries == {"", "C:/Windows", "exe/Scripts/"} \cup Candidates

InitPath ==
    /\ run = 1
    /\ pc = "path_study"
    /\ env = CheckFailures
    /\ fs = NoFiles
    /\ logOpen = FALSE
    /\ out = <<>>
    /\ calls = <<>>
    /\ results = EmptyDict
    /\ network = EmptyDict
    /\ python = EmptyDict
    /\ cmdOut = <<>>
    /\ probed = <<>>
    /\ PATH \in SeqsUpTo(PathEntries, MaxPathLen)
    /\ PYTHONPATH = "unset"
    /\ registry = EmptyDict
    /\ dirExists \in SUBSET Candidates
    /\ paths_to_add \in CandidateLists
    /\ study = [applied |-> 0, before |-> <<>>, once |-> <<>>]
    /\ ret = EmptyDict
    /\ returned = <<>>
    /\ gui = NoWindow
    /\ installer = NoInstaller

Construct ==
    \/ main_banner
    \/ create_base_directory
    \/ backup_dir_mkdir
    \/ setup_logging
    \/ SystemInfo

Diagnose ==
    \/ run_all_checks
    \/ header_resources
    \/ check_system_resources
    \/ header_network
    \/ check_network_connectivity
    \/ probe_internet
    \/ probe_dns
    \/ probe_pypi
    \/ probe_github
    \/ probe_ssl
    \/ probe_speed
    \/ log_network_results
    \/ header_python
    \/ get_pip_version
    \/ check_site_packages
    \/ get_installed_packages
    \/ determine_issues

Repair ==
    \/ main_report
    \/ repair_environment
    \/ fix_pip_backup
    \/ fix_pip_upgrade
    \/ fix_pip_setuptools
    \/ fix_pip_cache
    \/ pyqt_uninstall
    \/ pyqt_install
    \/ setup_environment_variables
    \/ verify_installation
    \/ summary

Finish ==
    \/ prompt
    \/ keypress

Restart == restart(Scenarios)

\* the troubleshooter run again and again on one machine
Next == Construct \/ Diagnose \/ Repair \/ Finish \/ Restart

Spec == Init /\ [][Next]_vars

\* construction and run_all_checks under every failure of the checks
NextChecks == Construct \/ Diagnose

SpecChecks == InitChecks /\ [][NextChecks]_vars

\* one run under every outcome of the repair steps
NextRepair == Construct \/ Diagnose \/ Repair \/ Finish

SpecRepair == InitRepair /\ [][NextRepair]_vars

\* one run under every outcome of the pip queries and the repair commands
InitCommands ==
    /\ run = 1
    /\ Started([Healthy EXCEPT !.query = Free, !.cmd = Free, !.pythonpath = "set"],
               NoFiles, StartPath, {"exe/Scripts"}, DefaultCandidates)

SpecCommands == InitCommands /\ [][NextRepair]_vars

\* the path-extension step applied twice to every PATH value
NextPath == extend_path_step

SpecPath == InitPath /\ [][NextPath]_vars

----------------------------------------------------------------------------
(* The GUI smoke test, pyqt_test.py.  The window lives in the record gui:
   running (app.exec() has not returned), visible, click_count, progress
   (the value of the progress bar), timer (the QTimer is active), debug
   (the lines of the debug area, each the n of 'Button clicked n times'),
   status (the status label), dialog (the reset confirmation is open),
   reply (the last answer to it), tray (the title of the last tray
   notification).  Four fields are bookkeeping of the model: event (the
   handler that ran last), clicks (test-button clicks since the last
   confirmed reset), pressed and asked (clicks and reset requests so far,
   which MaxClicks and MaxResets bound). *)

MaxClicks == 3

MaxResets == 2

\* QProgressBar(self), line 46: the range of a new progress bar is 0..100
ProgressMaximum == 100

\* line 163
ProgressStep == 5

\* line 42 and line 182
Ready == Label("System Status: Ready", 0)

\* line 145
Processing(n) == Label("Processing click", n)

\* line 167
Completed == Label("Operation completed!", 0)

\* QProgressBar.setValue: a value outside the range is ignored
setValue(value, v) == IF v \in 0..ProgressMaximum THEN v ELSE value

\* lines 10-14 and 215-216: the window after MainWindow() and window.show()
MainWindow ==
    [running |-> TRUE, visible |-> TRUE, click_count |-> 0,
     progress |-> setValue(0, 0), timer |-> FALSE, debug |-> <<>>,
     status |-> Ready, dialog |-> FALSE, reply |-> "", tray |-> "",
     event |-> "", clicks |-> 0, pressed |-> 0, asked |-> 0]

\* the click handler as if it wrote no line into the debug area
after_button_clicked_silent(w) ==
    [w EXCEPT !.click_count = @ + 1,
              !.status = Processing(w.click_count + 1),
              !.progress = setValue(@, 0),
              !.timer = TRUE,
              !.tray = "Button Clicked"]

\* lines 142-158
after_button_clicked(w) ==
    [w EXCEPT !.click_count = @ + 1,
              !.debug = Append(@, w.click_count + 1),
              !.status = Processing(w.click_count + 1),
              !.progress = setValue(@, 0),
              !.timer = TRUE,
              !.tray = "Button Clicked"]

\* the tick as if the test of line 162 were current <= 100: the timer is
\* never stopped
after_update_progress_endless(w) ==
    IF w.progress <= ProgressMaximum
    THEN [w EXCEPT !.progress = setValue(@, w.progress + ProgressStep)]
    ELSE [w EXCEPT !.timer = FALSE, !.status = Completed]

\* the tick as if the bar were rewound when the animation ends
after_update_progress_rewound(w) ==
    IF w.progress < ProgressMaximum
    THEN [w EXCEPT !.progress = setValue(@, w.progress + ProgressStep)]
    ELSE [w EXCEPT !.timer = FALSE, !.status = Completed,
                   !.progress = setValue(@, 1)]

\* lines 160-167
after_update_progress(w) ==
    IF w.progress < ProgressMaximum
    THEN [w EXCEPT !.progress = setValue(@, w.progress + ProgressStep)]
    ELSE [w EXCEPT !.timer = FALSE, !.status = Completed]

\* the reset as if it did not look at the answer
after_reply_unasked(w, reply) ==
    [w EXCEPT !.click_count = 0,
              !.progress = setValue(@, 0),
              !.debug = <<>>,
              !.status = Ready]

\* lines 177-182: what reset_application does with the answer
after_reply(w, reply) ==
    IF reply = "Yes"
    THEN [w EXCEPT !.click_count = 0,
                   !.progress = setValue(@, 0),
                   !.debug = <<>>,
                   !.status = Ready]
    ELSE w

\* the close handler of a window that does not override closeEvent: the
\* event stays accepted
after_closeEvent_default(w) == [window |-> w, accepted |-> TRUE]

\* lines 184-192: the window after the handler and the state of the event
after_closeEvent(w) ==
    [window |-> [w EXCEPT !.visible = FALSE, !.tray = "Application Minimized"],
     accepted |-> FALSE]

\* QWidget.close with the handler of lines 184-192: an accepted close
\* hides the window, and as main (lines 194-218) leaves
\* quitOnLastWindowClosed at its default, closing the only window ends
\* app.exec(); an ignored close does nothing more
close(w) ==
    LET handled == after_closeEvent(w)
    IN IF handled.accepted
       THEN [handled.window EXCEPT !.visible = FALSE, !.running = FALSE]
       ELSE handled.window

guiFrame == <<pc, run, env, fs, logOpen, out, calls, results, network, python,
              cmdOut, probed, PATH, PYTHONPATH, registry, dirExists, paths_to_add,
              study, ret, returned, installer>>

\* line 79: a click on the test button; the window takes input when it is
\* shown and no modal dialog is in front of it
button_clicked ==
    /\ gui.running /\ gui.visible /\ ~ gui.dialog
    /\ gui.pressed < MaxClicks
    /\ gui' = [after_button_clicked(gui) EXCEPT !.event = "button_clicked",
                                                !.clicks = @ + 1,
                                                !.pressed = @ + 1]
    /\ UNCHANGED guiFrame

\* line 120: a timeout of the running timer.  The event loop delivers it
\* whether the window is shown or hidden, and the loop of the open
\* confirmation dialog delivers it too
update_progress ==
    /\ gui.running /\ gui.timer
    /\ gui' = [after_update_progress(gui) EXCEPT !.event = "update_progress"]
    /\ UNCHANGED guiFrame

\* lines 169-175: a click on the reset button opens the modal question
reset_application ==
    /\ gui.running /\ gui.visible /\ ~ gui.dialog
    /\ gui.asked < MaxResets
    /\ gui' = [gui EXCEPT !.dialog = TRUE, !.asked = @ + 1,
                          !.event = "reset_application"]
    /\ UNCHANGED guiFrame

\* lines 175-182: the question is answered (closing the dialog answers No)
\* and reset_application goes on
reset_reply ==
    /\ gui.running /\ gui.dialog
    /\ \E reply \in {"Yes", "No"} :
         gui' = [after_reply(gui, reply) EXCEPT
                    !.dialog = FALSE, !.reply = reply, !.event = "reply",
                    !.clicks = IF reply = "Yes" THEN 0 ELSE @]
    /\ UNCHANGED guiFrame

\* lines 184-192: the user closes the window
closeEvent ==
    /\ gui.running /\ gui.visible /\ ~ gui.dialog
    /\ gui' = [close(gui) EXCEPT !.event = "closeEvent"]
    /\ UNCHANGED guiFrame

\* lines 131-132: tray action Show
show ==
    /\ gui.running
    /\ gui' = [gui EXCEPT !.visible = TRUE, !.event = "show"]
    /\ UNCHANGED guiFrame

\* lines 133-134: tray action Hide
hide ==
    /\ gui.running
    /\ gui' = [gui EXCEPT !.visible = FALSE, !.event = "hide"]
    /\ UNCHANGED guiFrame

\* lines 135-136: tray action Quit; app.exec() returns, and so does the
\* loop of an open confirmation dialog, unanswered
quit ==
    /\ gui.running
    /\ gui' = [gui EXCEPT !.running = FALSE, !.dialog = FALSE, !.event = "quit"]
    /\ UNCHANGED guiFrame

\* lines 194-218: the application in app.exec()
InitGui ==
    /\ run = 1
    /\ pc = "app.exec"
    /\ env = Healthy
    /\ fs = NoFiles
    /\ logOpen = FALSE
    /\ out = <<>>
    /\ calls = <<>>
    /\ results = EmptyDict
    /\ network = EmptyDict
    /\ python = EmptyDict
    /\ cmdOut = <<>>
    /\ probed = <<>>
    /\ PATH = StartPath
    /\ PYTHONPATH = "unset"
    /\ registry = EmptyDict
    /\ dirExists = {}
    /\ paths_to_add = <<>>
    /\ study = [applied |-> 0, before |-> <<>>, once |-> <<>>]
    /\ ret = EmptyDict
    /\ returned = <<>>
    /\ gui = MainWindow
    /\ installer = NoInstaller

NextGui ==
    \/ button_clicked
    \/ update_progress
    \/ reset_application
    \/ reset_reply
    \/ closeEvent
    \/ show
    \/ hide
    \/ quit

\* the GUI under every order of user actions and timer ticks
SpecGui == InitGui /\ [][NextGui]_vars

\* the same with the timer: an active QTimer of 50 ms (line 150) keeps
\* firing for as long as an event loop runs
SpecGuiFair == InitGui /\ [][NextGui]_vars /\ WF_vars(update_progress)

----------------------------------------------------------------------------
(* The requirements installer, requirements.py.  It lives in the record
   installer: pc (its position), version (sys.version_info[:2]), pip (the
   pip commands issued, in order: the self-upgrade, then one entry per
   package), outcomes (how the loop iteration of each package ended),
   failed_installations (the list of line 91), exit (the exit status of
   the process, "none" while it runs), cancelled and raised (main caught
   KeyboardInterrupt, or another exception), out (the headlines
   printed). *)

\* lines 25-36, the versions as the release numbers parse_version reads
get_requirements ==
    << [package |-> "psutil",     version |-> <<5, 8, 0>>],
       [package |-> "requests",   version |-> <<2, 25, 0>>],
       [package |-> "PyQt6",      version |-> <<6, 0, 0>>],
       [package |-> "typing",     version |-> <<3, 7, 4>>],
       [package |-> "pathlib",    version |-> <<1, 0, 1>>],
       [package |-> "setuptools", version |-> <<45, 0, 0>>],
       [package |-> "wheel",      version |-> <<0, 37, 0>>],
       [package |-> "pip",        version |-> <<21, 0, 0>>] >>

\* line 40
min_version == <<3, 7>>

\* a < b on tuples of numbers, as Python compares tuples (line 43) and as
\* parse_version compares release numbers of equal length (line 65)
RECURSIVE less(_, _)
less(a, b) ==
    IF a = <<>> THEN b # <<>>
    ELSE IF b = <<>> THEN FALSE
    ELSE IF a[1] # b[1] THEN a[1] < b[1]
    ELSE less(Tail(a), Tail(b))

\* the interpreters the installer is started with
PythonVersions == {<<2, 7>>, <<3, 6>>, <<3, 7>>, <<3, 12>>}

\* what subprocess.check_call can do: return, raise CalledProcessError on
\* a non-zero exit status, raise OSError when the interpreter cannot be
\* spawned, or be interrupted by the user
CheckCallOutcomes == {"ok", "CalledProcessError", "OSError", "KeyboardInterrupt"}

\* what pkg_resources.get_distribution can answer for a package whose
\* required version is given: a distribution that is older, the same or
\* newer, DistributionNotFound, or another exception
Distributions(required) ==
    [found : {"yes"}, version : {<<0, 0, 1>>, required, <<99, 0, 0>>}]
    \cup [found : {"DistributionNotFound", "Exception"}, version : {<<>>}]

\* lines 61-78
requirements_verify_installation(d, required) ==
    d.found = "yes" /\ ~ less(d.version, required)

\* lines 132-141: main catches what install_requirements lets out and
\* exits with status 1
main_except(w, o) ==
    IF o = "KeyboardInterrupt"
    THEN [w EXCEPT !.pc = "exited", !.exit = "1", !.cancelled = TRUE,
                   !.out = Append(@, "Installation cancelled by user.")]
    ELSE [w EXCEPT !.pc = "exited", !.exit = "1", !.raised = TRUE,
                   !.out = Append(@, "Unexpected error")]

instFrame == <<pc, run, env, fs, logOpen, out, calls, results, network, python,
               cmdOut, probed, PATH, PYTHONPATH, registry, dirExists, paths_to_add,
               study, ret, returned, gui>>

\* lines 82-85 with lines 38-50
check_python_version ==
    /\ installer.pc = "check_python_version"
    /\ installer' =
          IF less(installer.version, min_version)
          THEN [installer EXCEPT !.pc = "exited", !.exit = "1",
                   !.out = Append(@, "Error: Python 3.7 or higher is required")]
          ELSE [installer EXCEPT !.pc = "upgrade_pip",
                   !.out = Append(@, "=== PyDoctor Requirements Installer ===")]
    /\ UNCHANGED instFrame

\* lines 52-59, called at line 88: only CalledProcessError is caught
upgrade_pip ==
    /\ installer.pc = "upgrade_pip"
    /\ \E o \in CheckCallOutcomes :
         LET w == [installer EXCEPT !.pip = Append(@, "--upgrade pip")]
         IN installer' =
               CASE o = "ok" ->
                      [w EXCEPT !.pc = "install",
                                !.out = Append(@, "Pip upgrade successful!")]
                 [] o = "CalledProcessError" ->
                      [w EXCEPT !.pc = "install",
                                !.out = Append(@, "Failed to upgrade pip")]
                 [] OTHER -> main_except(w, o)
    /\ UNCHANGED instFrame

\* lines 94-111: one iteration of the loop over the requirements
install_package ==
    /\ installer.pc = "install"
    /\ Len(installer.outcomes) < Len(get_requirements)
    /\ LET requirement == get_requirements[Len(installer.outcomes) + 1]
           package == requirement.package
           w == [installer EXCEPT !.pip = Append(@, package)]
       IN \E o \in CheckCallOutcomes, d \in Distributions(requirement.version) :
            installer' =
               CASE o = "ok" ->
                      IF requirements_verify_installation(d, requirement.version)
                      THEN [w EXCEPT !.outcomes = Append(@, "installed")]
                      ELSE [w EXCEPT !.outcomes = Append(@, "not verified"),
                                     !.failed_installations = Append(@, package)]
                 [] o = "CalledProcessError" ->
                      [w EXCEPT !.outcomes = Append(@, "CalledProcessError"),
                                !.failed_installations = Append(@, package)]
                 [] o = "OSError" ->
                      [w EXCEPT !.outcomes = Append(@, "Exception"),
                                !.failed_installations = Append(@, package)]
                 [] OTHER -> main_except(w, o)
    /\ UNCHANGED instFrame

\* lines 113-130
installation_summary ==
    /\ installer.pc = "install"
    /\ Len(installer.outcomes) = Len(get_requirements)
    /\ installer' =
          IF installer.failed_installations # <<>>
          THEN [installer EXCEPT !.pc = "exited", !.exit = "1",
                   !.out = Append(@, "Failed to install the following packages")]
          ELSE [installer EXCEPT !.pc = "exited", !.exit = "0",
                   !.out = Append(@, "All requirements installed successfully!")]
    /\ UNCHANGED instFrame

\* lines 132-144: the installer started under some interpreter
InitInstall ==
    /\ run = 1
    /\ pc = "requirements"
    /\ env = Healthy
    /\ fs = NoFiles
    /\ logOpen = FALSE
    /\ out = <<>>
    /\ calls = <<>>
    /\ results = EmptyDict
    /\ network = EmptyDict
    /\ python = EmptyDict
    /\ cmdOut = <<>>
    /\ probed = <<>>
    /\ PATH = StartPath
    /\ PYTHONPATH = "unset"
    /\ registry = EmptyDict
    /\ dirExists = {}
    /\ paths_to_add = <<>>
    /\ study = [applied |-> 0, before |-> <<>>, once |-> <<>>]
    /\ ret = EmptyDict
    /\ returned = <<>>
    /\ gui = NoWindow
    /\ \E v \in PythonVersions :
         installer = [NoInstaller EXCEPT !.pc = "check_python_version",
                                         !.version = v]

NextInstall ==
    \/ check_python_version
    \/ upgrade_pip
    \/ install_package
    \/ installation_summary

\* one run of the installer under every outcome of its pip commands
SpecInstall == InitInstall /\ [][NextInstall]_vars

----------------------------------------------------------------------------
(* Properties *)

Returned == {"summary", "finally", "input", "exited"}

IsCheck(c) == c \in {"check_system_resources", "check_network_connectivity",
                     "check_python_environment"}

\* C1: when run_all_checks returns, whatever failed inside the resource,
\* the network and the environment check, the three checks have each been
\* invoked exactly once, in that order, and each has put a result or an
\* error marker into its own section of the report.  (SpecChecks)
C1_ChecksIndependent ==
    pc = "report" =>
        /\ SelectSeq(calls, IsCheck) = <<"check_system_resources",
                                         "check_network_connectivity",
                                         "check_python_environment">>
        /\ DOMAIN Get(results.system_checks, "resources", EmptyDict) # {}
        /\ DOMAIN results.network_checks # {}
        /\ DOMAIN results.python_checks # {}

\* a report in which all three checks failed: the resource section is the
\* error marker, all six probes failed and pip and site-packages failed
C1_AllChecksFailed ==
    /\ pc = "report"
    /\ Has(results.system_checks.resources, "error")
    /\ Len(results.network_checks.errors) = 6
    /\ results.python_checks.pip_version = "Unknown"
    /\ Has(results.python_checks.site_packages, "error")

\* C2: in every report, issues_found is true exactly when the reported
\* disk utilization is above 90 or the reachability probe did not succeed;
\* a resource section without a disk figure leaves the decision to the
\* reachability probe.  (SpecChecks)
C2_IssuesFoundIff ==
    pc = "report" =>
        LET resources == results.system_checks.resources
            diskHigh == Has(resources, "disk_usage") /\ resources.disk_usage > 90
            reachable == results.network_checks.internet_connection
        IN results.issues_found <=> (diskHigh \/ ~ reachable)

\* no issue is reported although DNS, PyPI, GitHub and TLS failed, CPU and
\* memory are at 99, the disk is at exactly 90 and pip does not answer
C2_OtherResultsBad ==
    /\ pc = "report"
    /\ ~ results.issues_found
    /\ ~ results.network_checks.dns_resolution
    /\ ~ results.network_checks.pypi_access
    /\ ~ results.network_checks.github_access
    /\ ~ Has(results.network_checks, "ssl_working")
    /\ results.system_checks.resources.cpu_usage = 99
    /\ results.system_checks.resources.memory_usage = 99
    /\ results.system_checks.resources.disk_usage = 90
    /\ results.python_checks.pip_version = "Unknown"

ProbeOrder == <<"probe_internet", "probe_dns", "probe_pypi", "probe_github",
                "probe_ssl", "probe_speed">>

ProbeError(p) ==
    CASE p = "probe_internet" -> "Internet connection error"
      [] p = "probe_dns"      -> "DNS resolution error"
      [] p = "probe_pypi"     -> "PyPI access error"
      [] p = "probe_github"   -> "GitHub access error"
      [] p = "probe_ssl"      -> "SSL error"
      [] p = "probe_speed"    -> "Speed test error"

ProbeFailed(x) == x.outcome = "fail"

Outcome(p) == (CHOOSE x \in Range(probed) : x.probe = p).outcome

NetworkReturned == Has(results, "network_checks") /\ DOMAIN results.network_checks # {}

\* C3: when check_network_connectivity returns, all six probes have been
\* attempted in order whichever of them failed, the error list holds
\* exactly one string per failed probe, the flag of a failed probe is not
\* set, and what is recorded for a probe depends on the outcome of that
\* probe alone.  (SpecChecks)
C3_ProbesIndependent ==
    NetworkReturned =>
        LET n == results.network_checks
            failed == SelectSeq(probed, ProbeFailed)
        IN /\ [i \in 1..Len(probed) |-> probed[i].probe] = ProbeOrder
           /\ n.errors = [i \in 1..Len(failed) |-> ProbeError(failed[i].probe)]
           /\ n.internet_connection = (Outcome("probe_internet") = "ok")
           /\ n.dns_resolution = (Outcome("probe_dns") = "ok")
           /\ n.pypi_access = (Outcome("probe_pypi") = "200")
           /\ n.github_access = (Outcome("probe_github") = "200")
           /\ Get(n, "ssl_working", FALSE) = (Outcome("probe_ssl") = "ok")
           /\ ("pypi" \in n.latency) = (Outcome("probe_pypi") # "fail")
           /\ ("github" \in n.latency) = (Outcome("probe_github") # "fail")
           /\ ("google" \in n.latency) = (Outcome("probe_speed") # "fail")
           /\ Has(n, "proxy_settings")

\* the reachability probe and the PyPI GET failed, and the probes after
\* each of them were made and succeeded
C3_LaterProbesSucceed ==
    /\ NetworkReturned
    /\ results.network_checks.errors = <<"Internet connection error", "PyPI access error">>
    /\ ~ results.network_checks.internet_connection
    /\ results.network_checks.dns_resolution
    /\ results.network_checks.github_access
    /\ Get(results.network_checks, "ssl_working", FALSE)
    /\ "google" \in results.network_checks.latency

RepairCalls == Count(calls, {"repair_environment"})

DiagnosisReturned == Has(results, "error") \/ "analyze_results" \in Range(calls)

\* C4: repair_environment is invoked at most once per run and exactly
\* once in every run in which run_all_checks has returned, whether the
\* report says issues, no issues or is the error marker; the repair and
\* its commands come only after run_all_checks has returned.  (Spec)
C4_RepairUnconditional ==
    /\ RepairCalls <= 1
    /\ (pc \in Returned /\ "run_all_checks" \in Range(calls)) => RepairCalls = 1
    /\ cmdOut # <<>> => RepairCalls = 1
    /\ RepairCalls = 1 =>
          /\ DiagnosisReturned
          /\ \A i \in 1..Len(calls) :
                IsCheck(calls[i]) \/ calls[i] \in {"run_all_checks", "analyze_results"}
                => \E j \in (i + 1)..Len(calls) : calls[j] = "repair_environment"

\* the run has ended, the report said that no issues were found, and the
\* repair was made
C4_RepairedWithoutIssues ==
    /\ pc = "exited"
    /\ Has(results, "issues_found")
    /\ ~ results.issues_found
    /\ RepairCalls = 1
    /\ Len(cmdOut) = 6

Mutating == {"python -m pip install --upgrade pip",
             "pip install --upgrade setuptools wheel", "pip cache purge",
             "pip uninstall PyQt6 PyQt6-Qt6 PyQt6-sip -y", "pip install PyQt6"}

MutatingIssued == \E i \in 1..Len(cmdOut) : cmdOut[i].cmd \in Mutating

\* C5 as stated: once an upgrade, purge, uninstall or reinstall command
\* has been issued, the backup file of the run exists with the package
\* list in it.  (SpecRepair)
C5_BackupExists == MutatingIssued => fs.backup_file = "written"

\* C5 as amended: the backup command is the first command of the repair,
\* issued before every upgrade, purge, uninstall and reinstall command;
\* the backup file holds the package list from then on if that command
\* exited with status 0.  (SpecRepair)
C5_BackupIssuedFirst ==
    MutatingIssued =>
        /\ cmdOut[1].cmd = "pip freeze"
        /\ cmdOut[1].outcome = "ok" => fs.backup_file = "written"

\* the first upgrade has just been issued after a backup that succeeded
C5_UpgradeAfterBackup ==
    /\ Len(cmdOut) = 2
    /\ cmdOut[1] = [cmd |-> "pip freeze", outcome |-> "ok"]
    /\ cmdOut[2].cmd = "python -m pip install --upgrade pip"
    /\ fs.backup_file = "written"

\* C6: the path-extension step appends no entry that the list already
\* holds, be it an entry of the PATH value read or a candidate appended
\* before, and applying the step a second time leaves the PATH value of
\* the first application.  (SpecPath)
C6_PathExtensionIdempotent ==
    study.applied >= 1 =>
        LET old == getenv_split(study.before)
            new == getenv_split(study.once)
        IN /\ IsPrefix(old, new)
           /\ \A i \in (Len(old) + 1)..Len(new) :
                 new[i] \notin Range(SubSeq(new, 1, i - 1))
           /\ study.applied = 2 => PATH = study.once

\* the step was applied twice to a PATH value that already held an
\* existing candidate, with the first two candidates the same existing
\* directory, not in PATH, which was appended
C6_DuplicateCandidate ==
    /\ study.applied = 2
    /\ paths_to_add[1] = paths_to_add[2]
    /\ paths_to_add[1] \in dirExists
    /\ paths_to_add[1] \notin Range(study.before)
    /\ paths_to_add[1] \in Range(study.once)
    /\ paths_to_add[3] \in dirExists
    /\ paths_to_add[3] \in Range(study.before)

RepairOrder == <<"fix_pip_backup", "fix_pip_upgrade", "fix_pip_setuptools",
                 "fix_pip_cache", "pyqt_uninstall", "pyqt_install",
                 "setup_environment_variables", "verify_installation">>

CommandOrder == <<"pip freeze", "python -m pip install --upgrade pip",
                  "pip install --upgrade setuptools wheel", "pip cache purge",
                  "pip uninstall PyQt6 PyQt6-Qt6 PyQt6-sip -y", "pip install PyQt6">>

IsRepairStep(c) == c \in Range(RepairOrder)

StepsDone == SelectSeq(calls, IsRepairStep)

\* C7: the steps of the repair are attempted in the order backup, upgrade
\* pip, upgrade setuptools and wheel, purge the cache, uninstall, install,
\* environment variables, verify; a repair that was begun attempts all of
\* them whichever of them fail; and what a step did stays: the backup that
\* was written and the directories added to PATH are there afterwards.
\* (SpecRepair)
C7_RepairOrder ==
    /\ IsPrefix(StepsDone, RepairOrder)
    /\ IsPrefix([i \in 1..Len(cmdOut) |-> cmdOut[i].cmd], CommandOrder)
    /\ (pc \in Returned /\ RepairCalls = 1) => StepsDone = RepairOrder
    /\ (cmdOut # <<>> /\ cmdOut[1].outcome = "ok") => fs.backup_file = "written"
    /\ "setup_environment_variables" \in Range(StepsDone) =>
          \A c \in Range(paths_to_add) \cap dirExists : c \in Range(PATH)

\* every command of the repair failed, the environment step returned
\* False, and all eight steps were attempted
C7_AllStepsFailed ==
    /\ pc = "summary"
    /\ StepsDone = RepairOrder
    /\ Len(cmdOut) = 6
    /\ \A i \in 1..Len(cmdOut) : cmdOut[i].outcome # "ok"
    /\ ~ ret.setup_environment_variables

Determinations == {"High disk usage detected", "No internet connection detected"}

SectionEntries ==
    {"CPU Usage", "Memory Usage", "Available Memory", "Disk Usage",
     "Free Disk Space", "Error checking system resources",
     "Basic Internet Connection: ok", "Basic Internet Connection: failed",
     "SSL/TLS: ok", "SSL/TLS: failed", "Network test errors encountered:",
     "Error checking site-packages", "Python Environment Check"}

\* C8 as stated: when run_all_checks returns, the log holds exactly one
\* issues-found determination, after the entries of the three check
\* sections.  (SpecChecks)
C8_OneDetermination ==
    pc = "report" =>
        /\ Count(fs.log, Determinations) = 1
        /\ \A i \in Positions(fs.log, Determinations),
              j \in Positions(fs.log, SectionEntries) : j < i

\* C9: no step of any run removes or rewrites a line of the log file: the
\* log before a step is a prefix of the log after it.  (Spec)
C9_LogAppendOnly == [][IsPrefix(fs.log, fs'.log)]_vars

\* a second run has constructed its manager on the log of the first run
\* and has logged its own session start after it
C9_SecondSessionLogged ==
    /\ run = 2
    /\ logOpen
    /\ Count(fs.log, {"Starting new troubleshooting session"}) = 2

InitFailed == "Error initializing TroubleshootManager" \in Range(out)

\* C10: when the construction of TroubleshootManager fails, the exception
\* reaches main, which prints it; no check is run and no repair command is
\* issued in that run; and the process does not end before the keypress
\* prompt has been printed.  (Spec)
C10_InitFailureFatal ==
    InitFailed =>
        /\ "Critical error" \in Range(out)
        /\ calls = <<>>
        /\ probed = <<>>
        /\ cmdOut = <<>>
        /\ pc \in {"finally", "input", "exited"}
        /\ pc \in {"input", "exited"} => out[Len(out)] = "Press Enter to exit..."

\* the log file could not be opened and the run has ended
C10_LoggingFailedExited ==
    /\ pc = "exited"
    /\ InitFailed
    /\ "Error setting up logging" \in Range(out)

\* C11 as stated: on Windows, once setup_environment_variables has run,
\* PYTHONPATH is set in the process environment, a PYTHONPATH that was not
\* set before has been written to the persistent environment, an extended
\* PATH has been written there too unless that write failed, and the step
\* has returned True.  (SpecRepair)
C11_EnvironmentPersisted ==
    ("setup_environment_variables" \in Range(calls) /\ env.plat = "Windows") =>
        /\ PYTHONPATH = "set"
        /\ env.pythonpath \in {"unset", "empty"} => Has(registry, "PYTHONPATH")
        /\ "Added to PATH" \in Range(fs.log) =>
              \/ Has(registry, "PATH")
              \/ "Could not update system PATH permanently" \in Range(fs.log)
        /\ ret.setup_environment_variables

\* C15 as stated: when run_all_checks returns, every metric that
\* check_system_resources has read is in the resource section of the
\* report, also when another read raised; the failure stays inside the
\* check.  (SpecChecks)
C15_SucceededReadsKept ==
    pc = "report" =>
        LET resources == results.system_checks.resources
        IN /\ "CPU Usage" \in Range(fs.log) => Has(resources, "cpu_usage")
           /\ "Memory Usage" \in Range(fs.log) => Has(resources, "memory_usage")
           /\ "Disk Usage" \in Range(fs.log) => Has(resources, "disk_usage")
           /\ SelectSeq(calls, IsCheck) = <<"check_system_resources",
                                            "check_network_connectivity",
                                            "check_python_environment">>


\* C18: in every run that reaches the repair, repair_environment returns
\* True and main prints 'Repair status: Successful' and never 'Repair
\* status: Failed', whatever the repair commands and the environment step
\* returned.  (SpecRepair)
C18_RepairReportedSuccessful ==
    /\ (pc \in Returned /\ RepairCalls = 1) => ret.repair_success
    /\ (pc \in {"finally", "input", "exited"} /\ RepairCalls = 1) =>
          "Repair status: Successful" \in Range(out)
    /\ "Repair status: Failed" \notin Range(out)

\* the program has ended after a repair in which every command failed and
\* the environment step returned False, and the summary said Successful
C18_FailedRepairSaidSuccessful ==
    /\ pc = "exited"
    /\ \A i \in 1..Len(cmdOut) : cmdOut[i].outcome \in {"timeout", "exception"}
    /\ Len(cmdOut) = 6
    /\ ~ ret.setup_environment_variables
    /\ "Repair status: Successful" \in Range(out)


\* the calls of run_command a complete run makes, in order
CommandCalls == <<"pip --version", "pip list">> \o CommandOrder

\* C16: run_command hands every call back to its caller: the value is the
\* completed process, with whatever exit status, unless the spawn timed
\* out or raised, and then and only then it is None.  No caller stops at
\* a None: the pip queries fall back to 'Unknown' and to no packages, and
\* a run that reaches the repair makes all eight calls.  (SpecCommands)
C16_RunCommandNeverRaises ==
    /\ \A i \in 1..Len(returned) :
          /\ returned[i].result.completed <=>
                returned[i].spawn \notin {"timeout", "exception"}
          /\ returned[i].result.completed =>
                (returned[i].result.returncode = 0 <=> returned[i].spawn = "ok")
    /\ IsPrefix([i \in 1..Len(returned) |-> returned[i].command], CommandCalls)
    /\ (Len(returned) >= 1 /\ ~ returned[1].result.completed) =>
          python.pip_version = "Unknown"
    /\ (Len(returned) >= 2 /\ ~ returned[2].result.completed) =>
          python.installed_packages = <<>>
    /\ (pc \in Returned /\ RepairCalls = 1) => Len(returned) = Len(CommandCalls)

\* the run has ended, every call of run_command returned None, one half
\* by timeout and the other by a failed spawn, and all eight were made
C16_EveryCallReturnedNone ==
    /\ pc = "exited"
    /\ Len(returned) = Len(CommandCalls)
    /\ \A i \in 1..Len(returned) : ~ returned[i].result.completed
    /\ \E i, j \in 1..Len(returned) :
          returned[i].spawn = "timeout" /\ returned[j].spawn = "exception"


\* C12: a close event never ends the application: after it the
\* application runs, the window is hidden and the tray shows
\* 'Application Minimized'; whatever the user has done, an application
\* that has ended was ended by the tray action Quit.  (SpecGui)
C12_CloseNeverTerminates ==
    /\ gui.event = "closeEvent" =>
          /\ gui.running
          /\ ~ gui.visible
          /\ gui.tray = "Application Minimized"
    /\ gui.event \in {"closeEvent", "show", "hide"} => gui.running
    /\ ~ gui.running => gui.event = "quit"

\* the window was closed while the progress animation ran and has been
\* brought back from the tray: the application runs and the window shows
C12_ClosedAndShownAgain ==
    /\ gui.event = "show"
    /\ gui.tray = "Application Minimized"
    /\ gui.running /\ gui.visible /\ gui.timer

\* the four things reset_application may clear
Visible(w) == <<w.click_count, w.progress, w.debug, w.status>>

\* C13: opening the confirmation changes nothing; an answer No leaves
\* click counter, progress value, debug log and status text as they
\* were; after an answer Yes the click counter is 0, the progress value
\* 0, the debug log empty and the status 'System Status: Ready'.
\* (SpecGui)
C13_ResetAsksFirst ==
    [][/\ gui'.event = "reset_application" =>
             gui'.dialog /\ Visible(gui') = Visible(gui)
       /\ (gui'.event = "reply" /\ gui'.reply = "No") =>
             Visible(gui') = Visible(gui)
       /\ (gui'.event = "reply" /\ gui'.reply = "Yes") =>
             Visible(gui') = <<0, 0, <<>>, Ready>>]_vars

\* a reset has just been confirmed after clicks, with the bar part-way:
\* everything is cleared
C13_ConfirmedAfterClicks ==
    /\ gui.event = "reply" /\ gui.reply = "Yes"
    /\ gui.pressed = 2
    /\ gui.timer
    /\ Visible(gui) = <<0, 0, <<>>, Ready>>


\* C14: a click adds exactly one to the click counter, sets the progress
\* value to 0 and starts the timer; a tick below 100 adds 5 to the
\* progress value and leaves the timer running, a tick at 100 stops the
\* timer and sets the status to 'Operation completed!'; only a running
\* timer ticks; and a timer that runs is stopped, or the application is
\* quit, unless the test button is clicked again: the animation
\* terminates.  (SpecGuiFair)
C14_AnimationTerminates ==
    /\ [][/\ gui'.event = "button_clicked" =>
                /\ gui'.click_count = gui.click_count + 1
                /\ gui'.progress = 0
                /\ gui'.timer
          /\ gui'.event = "update_progress" =>
                /\ gui.timer
                /\ IF gui.progress < ProgressMaximum
                   THEN gui'.progress = gui.progress + ProgressStep /\ gui'.timer
                   ELSE ~ gui'.timer /\ gui'.status = Completed]_vars
    /\ \A n \in 0..(MaxClicks + 1) :
          (gui.running /\ gui.timer /\ gui.pressed = n)
             ~> (~ gui.running \/ ~ gui.timer \/ gui.pressed # n)

\* the animation of the second click has run to its end: the bar is full,
\* the timer is stopped and the status says so
C14_AnimationCompleted ==
    /\ gui.event = "update_progress"
    /\ gui.click_count = 2
    /\ gui.progress = ProgressMaximum
    /\ ~ gui.timer
    /\ gui.status = Completed


\* C17 as stated: a window that is cleared, with the status 'System
\* Status: Ready' and the progress value 0 as a confirmed reset leaves
\* them, stays so through every step that is not a click of the test
\* button.  (SpecGui)
C17_ClearedUntilNextClick ==
    [][(gui.status = Ready /\ gui.progress = 0 /\ gui'.event # "button_clicked")
          => (gui'.status = Ready /\ gui'.progress = 0)]_vars


\* C19: in every reachable state the progress value is a multiple of 5
\* between 0 and 100, whatever the order of clicks, ticks and answered
\* resets; a tick at 100 stops the timer and leaves the value at 100.
\* (SpecGui)
C19_ProgressMultipleOfFive ==
    /\ [](gui.progress \in {ProgressStep * k : k \in 0..(ProgressMaximum \div ProgressStep)})
    /\ [][(gui'.event = "update_progress" /\ gui.progress = ProgressMaximum) =>
             (~ gui'.timer /\ gui'.progress = gui.progress)]_vars

\* a tick has just found the bar full, after a reset that was confirmed
\* while the timer ran and without a click since
C19_FullWithoutClick ==
    /\ gui.event = "update_progress"
    /\ gui.progress = ProgressMaximum
    /\ ~ gui.timer
    /\ gui.reply = "Yes"
    /\ gui.click_count = 0

\* C20: in every reachable state the click counter is the number of
\* test-button clicks since the last confirmed reset, or since start-up,
\* and the debug log has as many lines as the counter says; ticks,
\* declined resets, close events and tray actions change neither.
\* (SpecGui)
C20_CounterCountsClicks ==
    /\ [](gui.click_count = gui.clicks /\ Len(gui.debug) = gui.click_count)
    /\ [][(\/ gui'.event \in {"update_progress", "reset_application",
                              "closeEvent", "show", "hide", "quit"}
           \/ gui'.event = "reply" /\ gui'.reply = "No")
             => (gui'.click_count = gui.click_count /\ gui'.debug = gui.debug)]_vars

\* two clicks after a confirmed reset that followed a first click, and a
\* declined reset since: the counter and the log say two
C20_TwoClicksSinceReset ==
    /\ gui.pressed = 3
    /\ gui.click_count = 2
    /\ gui.debug = <<1, 2>>
    /\ gui.event = "reply" /\ gui.reply = "No"


\* the packages of the requirement list, in list order
Packages == [i \in 1..Len(get_requirements) |-> get_requirements[i].package]

\* the packages whose loop iteration ended in a failure, in list order
FailedPackages ==
    LET bad == {i \in 1..Len(installer.outcomes) : installer.outcomes[i] # "installed"}
    IN [k \in 1..Cardinality(bad) |->
          Packages[CHOOSE i \in bad : Cardinality({j \in bad : j <= i}) = k]]

\* C21 as stated, for every run the user does not interrupt: under an
\* interpreter older than 3.7 the installer exits with status 1 and no
\* pip command was issued; under any other, when it has exited, the pip
\* self-upgrade and then an install of every required package were
\* issued in list order, exactly the packages whose install or
\* verification failed are in the failed list, each once, and the exit
\* status is 1 if and only if that list is not empty.  (SpecInstall)
C21_InstallerContinues ==
    (installer.pc = "exited" /\ ~ installer.cancelled) =>
        IF less(installer.version, min_version)
        THEN installer.exit = "1" /\ installer.pip = <<>>
        ELSE /\ installer.pip = <<"--upgrade pip">> \o Packages
             /\ installer.failed_installations = FailedPackages
             /\ installer.exit = "1" <=> installer.failed_installations # <<>>

====
